---- MODULE Spec2Model ----
(***************************************************************************)
(* Model of src/error.rs of the backoff crate: the enum Error<E> with its  *)
(* two variants, its Display, Debug and std::error::Error implementations  *)
(* and the default conversion From<E>.                                     *)
(*                                                                         *)
(* The values are immutable; the state machine is a harness that holds two *)
(* places of type Error<E>, constructs values into them and calls the      *)
(* accessors on them, recording each call's result.  A second             *)
(* specification, RetrySpec, drives a retry loop that consumes the values. *)
(***************************************************************************)
EXTENDS Integers, Sequences, FiniteSets, TLC

VARIABLES slot, made, out, eng

vars == <<slot, made, out, eng>>

----------------------------------------------------------------------------
(* Bounds of the model *)

NumErrs == 3
NumDurations == 3
MaxAttempts == 3

----------------------------------------------------------------------------
(* Option<T>: None is the empty sequence, Some(x) the one-element sequence *)

None == <<>>

Some(x) == <<x>>

----------------------------------------------------------------------------
(* The underlying error type E: a handful of error objects, each with its  *)
(* own Display text, Debug text, description and (optional) source.        *)

Errs == 1 .. NumErrs

MsgOf(e) == IF e = 1 THEN "connection refused" ELSE "failure #" \o ToString(e)

ErrDisplay(e) == MsgOf(e)

ErrDebug(e) == "ConnErr(\"" \o MsgOf(e) \o "\")"

ErrDescription(e) == "conn error " \o ToString(e)

\* errors 1, 4, 7, ... have no source; every other error e has source e - 1
ErrSource(e) == IF e % 3 = 1 THEN None ELSE Some(e - 1)

----------------------------------------------------------------------------
(* instant::Duration: whole seconds plus nanoseconds *)

\* the k-th duration tried: zero, five seconds, one and a half seconds, then
\* k seconds less a nanosecond
Dur(k) ==
    CASE k = 1 -> [secs |-> 0, nanos |-> 0]
      [] k = 2 -> [secs |-> 5, nanos |-> 0]
      [] k = 3 -> [secs |-> 1, nanos |-> 500000000]
      [] OTHER -> [secs |-> k - 1, nanos |-> 999999999]

Durations == {Dur(k) : k \in 1 .. NumDurations}

Delays == {None} \cup {Some(d) : d \in Durations}

----------------------------------------------------------------------------
(* enum Error<E> *)

Permanent(e) == [tag |-> "Permanent", err |-> e]

\* a constructor that keeps whole seconds only
Transient_truncates(e, d) ==
    [tag |-> "Transient", err |-> e,
     delay |-> IF d = None THEN None ELSE Some([secs |-> d[1].secs, nanos |-> 0])]

Transient(e, d) == [tag |-> "Transient", err |-> e, delay |-> d]

Empty == [tag |-> "empty"]

\* a conversion that classifies as terminal
from_permanent(e) == Permanent(e)

\* impl From<E> for Error<E>
from(e) == Transient(e, None)

\* pattern match on a value: the fields it holds
fields(w) ==
    CASE w.tag = "Permanent" -> <<w.tag, w.err>>
      [] w.tag = "Transient" -> <<w.tag, w.err, w.delay>>

\* re-wrapping through the default conversion
rewrap_into(w) == from(w.err)

\* destructure a value and build it again with the same variant
rewrap(w) ==
    LET f == fields(w)
    IN  CASE f[1] = "Permanent" -> Permanent(f[2])
          [] f[1] = "Transient" -> Transient(f[2], f[3])

----------------------------------------------------------------------------
(* impl fmt::Display *)

\* a rendering that prefixes the classification
DisplayFmt_tagged(w) ==
    CASE w.tag = "Permanent" -> "permanent: " \o ErrDisplay(w.err)
      [] w.tag = "Transient" -> ErrDisplay(w.err)

\* a rendering that appends the retry hint
DisplayFmt_hint(w) ==
    IF w.tag = "Transient" /\ w.delay # None
    THEN ErrDisplay(w.err) \o " (retry after " \o ToString(w.delay[1].secs) \o "s)"
    ELSE ErrDisplay(w.err)

DisplayFmt(w) ==
    CASE w.tag \in {"Permanent", "Transient"} -> ErrDisplay(w.err)

(* impl fmt::Debug *)

\* Formatter::debug_tuple(name).field(x).finish() under {:?}
DebugTuple(name, field) == name \o "(" \o field \o ")"

DelayDebug(d) ==
    IF d = None THEN "None"
    ELSE "Some(" \o ToString(d[1].secs) \o "." \o ToString(d[1].nanos) \o "s)"

\* a derived-style rendering that prints both fields of Transient
DebugFmt_derived(w) ==
    CASE w.tag = "Permanent" -> DebugTuple("Permanent", ErrDebug(w.err))
      [] w.tag = "Transient" ->
            DebugTuple("Transient", ErrDebug(w.err) \o ", " \o DelayDebug(w.delay))

DebugFmt(w) ==
    LET name == CASE w.tag = "Permanent" -> "Permanent"
                  [] w.tag = "Transient" -> "Transient"
        err  == ErrDebug(w.err)
    IN  DebugTuple(name, err)

(* impl error::Error *)

\* a description that delegates to the wrapped error
description_delegates(w) == ErrDescription(w.err)

description(w) ==
    CASE w.tag = "Permanent" -> "permanent error"
      [] w.tag = "Transient" -> "transient error"

\* a source that exposes the wrapped error itself as the next link
source_wraps(w) == Some(w.err)

source(w) ==
    CASE w.tag \in {"Permanent", "Transient"} -> ErrSource(w.err)

cause(w) == source(w)

\* the chain of causes reached by following source() repeatedly
RECURSIVE Chain(_)
Chain(opt) == IF opt = None THEN <<>> ELSE <<opt[1]>> \o Chain(ErrSource(opt[1]))

----------------------------------------------------------------------------
(* The harness: two places holding a value of type Error<E>.               *)
(*   slot[i]  the value held (Empty before the first construction)         *)
(*   made[i]  the constructor call that produced it, with its arguments    *)
(*   out[i]   the last accessor called on it, with its result              *)

Slots == {1, 2}

NoCall == [op |-> "none"]

Init ==
    /\ slot = [i \in Slots |-> Empty]
    /\ made = [i \in Slots |-> [ctor |-> "none"]]
    /\ out = [i \in Slots |-> NoCall]
    /\ eng = [pc |-> "run", attempts |-> 0, given |-> [ctor |-> "none"],
              last |-> Empty, wait |-> None, slept |-> None,
              result |-> [kind |-> "none"]]

\* Error::Permanent(e)
NewPermanent(i, e) ==
    /\ slot' = [slot EXCEPT ![i] = Permanent(e)]
    /\ made' = [made EXCEPT ![i] = [ctor |-> "Permanent", err |-> e]]
    /\ out' = [out EXCEPT ![i] = NoCall]
    /\ UNCHANGED eng

\* a constructor that rejects a zero delay
NewTransient_validated(i, e, d) ==
    /\ d # Some([secs |-> 0, nanos |-> 0])
    /\ slot' = [slot EXCEPT ![i] = Transient(e, d)]
    /\ made' = [made EXCEPT ![i] = [ctor |-> "Transient", err |-> e, delay |-> d]]
    /\ out' = [out EXCEPT ![i] = NoCall]
    /\ UNCHANGED eng

\* Error::Transient(e, d)
NewTransient(i, e, d) ==
    /\ slot' = [slot EXCEPT ![i] = Transient(e, d)]
    /\ made' = [made EXCEPT ![i] = [ctor |-> "Transient", err |-> e, delay |-> d]]
    /\ out' = [out EXCEPT ![i] = NoCall]
    /\ UNCHANGED eng

\* Error::from(e), e.into(), the ? operator
Convert(i, e) ==
    /\ slot' = [slot EXCEPT ![i] = from(e)]
    /\ made' = [made EXCEPT ![i] = [ctor |-> "from", err |-> e]]
    /\ out' = [out EXCEPT ![i] = NoCall]
    /\ UNCHANGED eng

\* match slot[i] { Permanent(e) => Permanent(e), Transient(e, d) => Transient(e, d) }
\* into the other place
Rewrap(i, j) ==
    /\ i # j
    /\ slot[i] # Empty
    /\ slot' = [slot EXCEPT ![j] = rewrap(slot[i])]
    /\ made' = [made EXCEPT ![j] = [ctor |-> "rewrap", of |-> slot[i]]]
    /\ out' = [out EXCEPT ![j] = NoCall]
    /\ UNCHANGED eng

\* format!("{}", slot[i])
ShowDisplay(i) ==
    /\ slot[i] # Empty
    /\ out' = [out EXCEPT ![i] = [op |-> "display", res |-> DisplayFmt(slot[i])]]
    /\ UNCHANGED <<slot, made, eng>>

\* format!("{:?}", slot[i])
ShowDebug(i) ==
    /\ slot[i] # Empty
    /\ out' = [out EXCEPT ![i] = [op |-> "debug", res |-> DebugFmt(slot[i])]]
    /\ UNCHANGED <<slot, made, eng>>

GetDescription(i) ==
    /\ slot[i] # Empty
    /\ out' = [out EXCEPT ![i] = [op |-> "description", res |-> description(slot[i])]]
    /\ UNCHANGED <<slot, made, eng>>

GetSource(i) ==
    /\ slot[i] # Empty
    /\ out' = [out EXCEPT ![i] = [op |-> "source", res |-> source(slot[i])]]
    /\ UNCHANGED <<slot, made, eng>>

GetCause(i) ==
    /\ slot[i] # Empty
    /\ out' = [out EXCEPT ![i] = [op |-> "cause", res |-> cause(slot[i])]]
    /\ UNCHANGED <<slot, made, eng>>

\* follow source() from the value to the end of the chain
WalkChain(i) ==
    /\ slot[i] # Empty
    /\ out' = [out EXCEPT ![i] = [op |-> "chain", res |-> Chain(source(slot[i]))]]
    /\ UNCHANGED <<slot, made, eng>>

\* match on the value and read the fields back
ReadFields(i) ==
    /\ slot[i] # Empty
    /\ out' = [out EXCEPT ![i] = [op |-> "fields", res |-> fields(slot[i])]]
    /\ UNCHANGED <<slot, made, eng>>

Next ==
    \/ \E i \in Slots, e \in Errs : NewPermanent(i, e)
    \/ \E i \in Slots, e \in Errs, d \in Delays : NewTransient(i, e, d)
    \/ \E i \in Slots, e \in Errs : Convert(i, e)
    \/ \E i \in Slots, j \in Slots : Rewrap(i, j)
    \/ \E i \in Slots : ShowDisplay(i)
    \/ \E i \in Slots : ShowDebug(i)
    \/ \E i \in Slots : GetDescription(i)
    \/ \E i \in Slots : GetSource(i)
    \/ \E i \in Slots : GetCause(i)
    \/ \E i \in Slots : WalkChain(i)
    \/ \E i \in Slots : ReadFields(i)

Spec == Init /\ [][Next]_vars

----------------------------------------------------------------------------
(* The retry loop that consumes the values: run the operation; on          *)
(* Permanent return the error as final; on Transient wait (the explicit    *)
(* delay if present, else the delay of the backoff policy) and run again.  *)
(*   eng.pc        "run", "handle", "sleep" or "done"                      *)
(*   eng.attempts  attempts made so far                                    *)
(*   eng.given     the constructor call the last failed attempt made       *)
(*   eng.last      the outcome of the last attempt                         *)
(*   eng.wait      the delay chosen for the next attempt                   *)
(*   eng.slept     the delay waited before the current attempt             *)
(*   eng.result    what the loop returned to its caller                    *)

Ok == [tag |-> "ok"]

RECURSIVE Pow2(_)
Pow2(n) == IF n = 0 THEN 1 ELSE 2 * Pow2(n - 1)

\* the policy's delay after the n-th failed attempt
NextBackoff(n) == [secs |-> Pow2(n), nanos |-> 250000000]

\* eng after an attempt that ended with outcome, built by the constructor call
Attempted(outcome, call) ==
    [eng EXCEPT !.pc = "handle", !.attempts = @ + 1,
                !.last = outcome, !.given = call, !.wait = None]

\* the operation succeeds
OpOk ==
    /\ eng.pc = "run"
    /\ eng.attempts < MaxAttempts
    /\ eng' = Attempted(Ok, [ctor |-> "none"])
    /\ UNCHANGED <<slot, made, out>>

\* the operation fails with Err(Error::Permanent(e))
OpPermanent(e) ==
    /\ eng.pc = "run"
    /\ eng.attempts < MaxAttempts
    /\ eng' = Attempted(Permanent(e), [ctor |-> "Permanent", err |-> e])
    /\ UNCHANGED <<slot, made, out>>

\* the operation fails with Err(Error::Transient(e, d))
OpTransient(e, d) ==
    /\ eng.pc = "run"
    /\ eng.attempts < MaxAttempts
    /\ eng' = Attempted(Transient(e, d), [ctor |-> "Transient", err |-> e, delay |-> d])
    /\ UNCHANGED <<slot, made, out>>

\* the operation fails with a bare error propagated by ?
OpQuestionMark(e) ==
    /\ eng.pc = "run"
    /\ eng.attempts < MaxAttempts
    /\ eng' = Attempted(from(e), [ctor |-> "from", err |-> e])
    /\ UNCHANGED <<slot, made, out>>

HandleOk ==
    /\ eng.pc = "handle"
    /\ eng.last = Ok
    /\ eng' = [eng EXCEPT !.pc = "done", !.result = [kind |-> "ok"]]
    /\ UNCHANGED <<slot, made, out>>

HandlePermanent ==
    /\ eng.pc = "handle"
    /\ eng.last.tag = "Permanent"
    /\ eng' = [eng EXCEPT !.pc = "done",
                          !.result = [kind |-> "final", err |-> eng.last.err]]
    /\ UNCHANGED <<slot, made, out>>

HandleTransient ==
    /\ eng.pc = "handle"
    /\ eng.last.tag = "Transient"
    /\ eng' = [eng EXCEPT !.pc = "sleep",
                          !.wait = IF eng.last.delay # None THEN eng.last.delay
                                   ELSE Some(NextBackoff(eng.attempts))]
    /\ UNCHANGED <<slot, made, out>>

Sleep ==
    /\ eng.pc = "sleep"
    /\ eng' = [eng EXCEPT !.pc = "run", !.slept = eng.wait]
    /\ UNCHANGED <<slot, made, out>>

RetryNext ==
    \/ OpOk
    \/ \E e \in Errs : OpPermanent(e)
    \/ \E e \in Errs, d \in Delays : OpTransient(e, d)
    \/ \E e \in Errs : OpQuestionMark(e)
    \/ HandleOk
    \/ HandlePermanent
    \/ HandleTransient
    \/ Sleep

RetrySpec == Init /\ [][RetryNext]_vars

----------------------------------------------------------------------------
(* Properties *)

Zero == [secs |-> 0, nanos |-> 0]

HalfPast == [secs |-> 1, nanos |-> 500000000]

\* C1: the default conversion of e yields exactly Transient(e, None): the
\* variant is Transient, the wrapped error is e and the delay is absent, both
\* in the value held and in the fields read back from it.
C1_FromIsTransientNone ==
    \A i \in Slots :
        made[i].ctor = "from" =>
            /\ slot[i] = [tag |-> "Transient", err |-> made[i].err, delay |-> None]
            /\ out[i].op = "fields" => out[i].res = <<"Transient", made[i].err, None>>

C1_Witness ==
    \E i \in Slots : made[i].ctor = "from" /\ out[i].op = "fields"

\* C2: the Display text of Permanent(e) and of Transient(e, None) is e's own
\* Display text, so the two are identical to each other.
C2_DisplayIsInner ==
    /\ \A i \in Slots :
          (/\ out[i].op = "display"
           /\ \/ slot[i].tag = "Permanent"
              \/ slot[i].tag = "Transient" /\ slot[i].delay = None)
          => out[i].res = ErrDisplay(slot[i].err)
    /\ \A i, j \in Slots :
          (/\ out[i].op = "display" /\ out[j].op = "display"
           /\ slot[i].tag = "Permanent"
           /\ slot[j].tag = "Transient" /\ slot[j].delay = None
           /\ slot[i].err = slot[j].err)
          => out[i].res = out[j].res

C2_Witness ==
    \E i, j \in Slots :
        /\ out[i].op = "display" /\ out[j].op = "display"
        /\ slot[i].tag = "Permanent"
        /\ slot[j].tag = "Transient" /\ slot[j].delay = None
        /\ slot[i].err = slot[j].err

\* C3: the Debug text of Permanent(e) is "Permanent(" + debug(e) + ")" and the
\* Debug text of Transient(e, d) is "Transient(" + debug(e) + ")" for every
\* delay d: the delay never appears.
C3_DebugIsTagged ==
    \A i \in Slots :
        out[i].op = "debug" =>
            /\ slot[i].tag = "Permanent" =>
                  out[i].res = "Permanent(" \o ErrDebug(slot[i].err) \o ")"
            /\ slot[i].tag = "Transient" =>
                  out[i].res = "Transient(" \o ErrDebug(slot[i].err) \o ")"

C3_Witness ==
    \E i \in Slots :
        /\ out[i].op = "debug"
        /\ slot[i].tag = "Transient"
        /\ slot[i].delay = Some(HalfPast)

\* C4: source() and cause() of either variant return the wrapped error's own
\* source (none when it has none), and the chain walked from the value is the
\* chain of the wrapped error's causes, with no node of its own.
C4_SourceIsInner ==
    \A i \in Slots :
        /\ out[i].op \in {"source", "cause"} => out[i].res = ErrSource(slot[i].err)
        /\ out[i].op = "chain" => out[i].res = Chain(ErrSource(slot[i].err))

C4_Witness ==
    \E i, j \in Slots :
        /\ slot[i].tag = "Permanent" /\ out[i].op = "chain" /\ Len(out[i].res) = 2
        /\ slot[j].tag = "Transient" /\ out[j].op = "source" /\ out[j].res = None

\* C5: Transient(e, Some(d)) holds exactly d: the delay read back is Some(d),
\* unrounded and unconverted, for every d including zero, and the error read
\* back is e.
C5_DelayPreserved ==
    \A i \in Slots :
        (made[i].ctor = "Transient" /\ made[i].delay # None /\ out[i].op = "fields")
        => out[i].res = <<"Transient", made[i].err, made[i].delay>>

C5_Witness ==
    \E i \in Slots :
        /\ made[i].ctor = "Transient"
        /\ made[i].delay = Some(HalfPast)
        /\ out[i].op = "fields"

C7_DescriptionFixed ==
    \A i \in Slots :
        out[i].op = "description" =>
            /\ slot[i].tag = "Permanent" => out[i].res = "permanent error"
            /\ slot[i].tag = "Transient" => out[i].res = "transient error"
            /\ out[i].res # ErrDescription(slot[i].err)

C7_Witness ==
    \E i, j \in Slots :
        /\ out[i].op = "description" /\ slot[i].tag = "Permanent"
        /\ out[j].op = "description" /\ slot[j].tag = "Transient"
        /\ slot[j].delay # None

\* C8: construction cannot fail: every constructor and the default conversion
\* accept every error and every delay (zero included), and the value built
\* holds the arguments unaltered.
C8_ConstructionTotal ==
    /\ \A i \in Slots, e \in Errs : ENABLED NewPermanent(i, e)
    /\ \A i \in Slots, e \in Errs, d \in Delays : ENABLED NewTransient(i, e, d)
    /\ \A i \in Slots, e \in Errs : ENABLED Convert(i, e)
    /\ \A i \in Slots :
          /\ made[i].ctor = "Permanent" =>
                slot[i] = [tag |-> "Permanent", err |-> made[i].err]
          /\ made[i].ctor = "Transient" =>
                slot[i] = [tag |-> "Transient", err |-> made[i].err,
                           delay |-> made[i].delay]
          /\ made[i].ctor = "from" =>
                slot[i] = [tag |-> "Transient", err |-> made[i].err, delay |-> None]

C8_Witness ==
    \E i, j \in Slots :
        /\ made[i].ctor = "Transient" /\ slot[i].delay = Some(Zero)
        /\ made[j].ctor = "Permanent" /\ slot[j].tag = "Permanent"

\* C10: the delay is invisible to Display, description(), source() and cause():
\* two Transient values of the same error give the same result whatever their
\* delays.
C10_DelayInvisible ==
    \A i, j \in Slots :
        (/\ slot[i].tag = "Transient" /\ slot[j].tag = "Transient"
         /\ slot[i].err = slot[j].err
         /\ out[i].op = out[j].op
         /\ out[i].op \in {"display", "description", "source", "cause"})
        => out[i].res = out[j].res

C10_Witness ==
    \E i, j \in Slots :
        /\ slot[i].tag = "Transient" /\ slot[j].tag = "Transient"
        /\ slot[i].err = slot[j].err
        /\ slot[i].delay = None /\ slot[j].delay = Some(HalfPast)
        /\ out[i].op = "display" /\ out[j].op = "display"

----------------------------------------------------------------------------
(* Properties of the retry loop *)

\* the delay the last failed attempt calls for
Expected ==
    IF eng.given.ctor = "Transient" /\ eng.given.delay # None
    THEN eng.given.delay
    ELSE Some(NextBackoff(eng.attempts))

C9_Disposition ==
    /\ (eng.given.ctor = "Permanent" /\ eng.pc # "handle") =>
          /\ eng.pc = "done"
          /\ eng.result = [kind |-> "final", err |-> eng.given.err]
    /\ (eng.given.ctor \in {"Transient", "from"} /\ eng.pc = "sleep") =>
          eng.wait = Expected
    /\ (eng.given.ctor \in {"Transient", "from"} /\ eng.pc = "run") =>
          eng.slept = Expected

====
